---- MODULE Spec2Model ----
(***************************************************************************)
(* Model of the MeetingScheduler class of src/main.py: the time-range      *)
(* parser, the index builder, the interval intersector and the meeting     *)
(* time finder.                                                            *)
(*                                                                         *)
(* A cell text is a sequence of tokens (a number, a meridian marker, a     *)
(* dash, a separator, a blank, a word).  The tokens of the alphabet used   *)
(* here never combine into an absence keyword across a token boundary, so  *)
(* the substring test of the parser is a test on single tokens.            *)
(* Durations are whole hours; the code compares them, it never rounds.     *)
(***************************************************************************)
EXTENDS Integers, Sequences, FiniteSets, TLC

\* ------------------------------------------------------------------ bounds
MaxRows == 3
MaxHour == 3
MaxParts == 3

\* --------------------------------------------------------- generic helpers
Max2(a, b) == IF a >= b THEN a ELSE b
Min2(a, b) == IF a <= b THEN a ELSE b

RECURSIVE SeqConcat(_)
SeqConcat(ss) == IF ss = <<>> THEN <<>> ELSE Head(ss) \o SeqConcat(Tail(ss))

SeqRange(s) == {s[i] : i \in 1..Len(s)}

\* ------------------------------------------------------- parse_time_slot
\* str.upper() on one token
Upper(tok) ==
    CASE tok = "am" -> "AM"
      [] tok = "pm" -> "PM"
      [] tok = "na" -> "NA"
      [] tok = "n/a" -> "N/A"
      [] tok = "nan" -> "NAN"
      [] tok = "On Leave" -> "ON LEAVE"
      [] tok = "off" -> "OFF"
      [] tok = "Unavailable" -> "UNAVAILABLE"
      [] tok = "banana" -> "BANANA"
      [] OTHER -> tok

UpperAll(toks) == [i \in 1..Len(toks) |-> Upper(toks[i])]

IsSpace(tok) == tok = " "

\* str.strip(): leading and trailing blanks removed
RECURSIVE LStrip(_)
LStrip(toks) ==
    IF toks # <<>> /\ IsSpace(Head(toks)) THEN LStrip(Tail(toks)) ELSE toks

RECURSIVE RStrip(_)
RStrip(toks) ==
    IF toks # <<>> /\ IsSpace(toks[Len(toks)])
    THEN RStrip(SubSeq(toks, 1, Len(toks) - 1))
    ELSE toks

Strip(toks) == RStrip(LStrip(toks))

\* the (upper-cased) tokens that hold one of the unavailable_keywords
\* 'NA', 'N/A', 'ON LEAVE', 'LEAVE', 'UNAVAILABLE', 'OFF' as a substring
KeywordTokens ==
    {"NA", "N/A", "ON LEAVE", "LEAVE", "UNAVAILABLE", "OFF", "NAN", "BANANA"}

HasUnavailableKeyword_WholeCell(toks) == Len(toks) = 1 /\ toks[1] \in KeywordTokens

HasUnavailableKeyword(toks) == \E i \in 1..Len(toks) : toks[i] \in KeywordTokens

\* re.split('[,;]', time_str)
IsSeparator(tok) == tok \in {",", ";"}

RECURSIVE SplitParts(_, _)
SplitParts(toks, cur) ==
    IF toks = <<>> THEN <<cur>>
    ELSE IF IsSeparator(Head(toks)) THEN <<cur>> \o SplitParts(Tail(toks), <<>>)
    ELSE SplitParts(Tail(toks), Append(cur, Head(toks)))

\* int() of a run of digits
NumVal ==
    ("0" :> 0) @@ ("1" :> 1) @@ ("2" :> 2) @@ ("3" :> 3) @@ ("4" :> 4) @@
    ("5" :> 5) @@ ("6" :> 6) @@ ("7" :> 7) @@ ("8" :> 8) @@ ("9" :> 9) @@
    ("10" :> 10) @@ ("11" :> 11) @@ ("12" :> 12) @@ ("13" :> 13)

IsNum(tok) == tok \in DOMAIN NumVal
IsPeriod(tok) == tok \in {"AM", "PM"}
\* [-\u2013]: the ASCII hyphen or the en dash, written "en-dash" here
IsDash(tok) == tok \in {"-", "en-dash"}

\* \s* : the first position at or after i that holds no blank
RECURSIVE SkipSpace(_, _)
SkipSpace(toks, i) ==
    IF i <= Len(toks) /\ IsSpace(toks[i]) THEN SkipSpace(toks, i + 1) ELSE i

TokAt(toks, i) == IF i >= 1 /\ i <= Len(toks) THEN toks[i] ELSE "<end>"

\* (\d+)\s*(AM|PM)?\s*[-\u2013]\s*(\d+)\s*(AM|PM) anchored at position i:
\* <<>> when it does not match there, else one record of the four groups
MatchAt(toks, i) ==
    IF ~IsNum(TokAt(toks, i)) THEN <<>>
    ELSE LET j1 == SkipSpace(toks, i + 1)
             hasP == IsPeriod(TokAt(toks, j1))
             j2 == IF hasP THEN SkipSpace(toks, j1 + 1) ELSE j1
             j3 == SkipSpace(toks, j2 + 1)
             j4 == SkipSpace(toks, j3 + 1)
         IN IF IsDash(TokAt(toks, j2)) /\ IsNum(TokAt(toks, j3))
               /\ IsPeriod(TokAt(toks, j4))
            THEN <<[g1 |-> NumVal[toks[i]],
                    g2 |-> IF hasP THEN toks[j1] ELSE "",
                    g3 |-> NumVal[toks[j3]],
                    g4 |-> toks[j4]]>>
            ELSE <<>>

\* re.search: the leftmost position where the pattern matches
RECURSIVE SearchFrom(_, _)
SearchFrom(toks, i) ==
    IF i > Len(toks) THEN <<>>
    ELSE IF MatchAt(toks, i) # <<>> THEN MatchAt(toks, i)
    ELSE SearchFrom(toks, i + 1)

Search(toks) == SearchFrom(toks, 1)

\* conversion of the end hour to 24-hour format
EndTo24(end_time, end_period) ==
    IF end_period = "PM" /\ end_time # 12 THEN end_time + 12
    ELSE IF end_period = "AM" /\ end_time = 12 THEN 0
    ELSE end_time

StartTo24_EndPeriod(start_time, start_period, end_period) ==
    IF end_period = "PM" /\ start_time # 12 THEN start_time + 12
    ELSE IF end_period = "AM" /\ start_time = 12 THEN 0
    ELSE start_time

\* conversion of the start hour: its own period when it has one, else
\* inferred from the end period
StartTo24(start_time, start_period, end_period) ==
    IF start_period # ""
    THEN IF start_period = "PM" /\ start_time # 12 THEN start_time + 12
         ELSE IF start_period = "AM" /\ start_time = 12 THEN 0
         ELSE start_time
    ELSE IF end_period = "PM" /\ start_time < 12 THEN start_time + 12
         ELSE start_time

\* the slots one sub-part contributes: none or one (start, end) tuple
PartSlots(part) ==
    LET p == Strip(part)
        m == Search(p)
    IN IF p = <<>> \/ m = <<>> THEN <<>>
       ELSE << <<StartTo24(m[1].g1, m[1].g2, m[1].g4),
                 EndTo24(m[1].g3, m[1].g4)>> >>

parse_time_slot_AllOrNothing(time_str) ==
    LET s == UpperAll(Strip(time_str))
        parts == SplitParts(s, <<>>)
    IN IF HasUnavailableKeyword(s) THEN <<>>
       ELSE IF \E i \in 1..Len(parts) : PartSlots(parts[i]) = <<>> THEN <<>>
       ELSE SeqConcat([i \in 1..Len(parts) |-> PartSlots(parts[i])])

parse_time_slot(time_str) ==
    LET s == UpperAll(Strip(time_str))
        parts == SplitParts(s, <<>>)
    IN IF HasUnavailableKeyword(s) THEN <<>>
       ELSE SeqConcat([i \in 1..Len(parts) |-> PartSlots(parts[i])])

\* ------------------------------------------------------------ Python dict
\* a dict is the sequence of its [key, val] items in insertion order
DictKeys(d) == [i \in 1..Len(d) |-> d[i].key]
DictValues(d) == [i \in 1..Len(d) |-> d[i].val]
DictHas(d, k) == \E i \in 1..Len(d) : d[i].key = k
DictGet(d, k) == d[CHOOSE i \in 1..Len(d) : d[i].key = k].val

DictPut_KeepFirst(d, k, v) ==
    IF DictHas(d, k) THEN d ELSE Append(d, [key |-> k, val |-> v])

\* d[k] = v: a new key goes last, a known key keeps its place
DictPut(d, k, v) ==
    IF DictHas(d, k)
    THEN [i \in 1..Len(d) |-> IF d[i].key = k THEN [key |-> k, val |-> v] ELSE d[i]]
    ELSE Append(d, [key |-> k, val |-> v])

\* ------------------------------------------------------ parse_availability
\* str.lower() on one token of a name
Lower(tok) ==
    CASE tok = "NaN" -> "nan"
      [] tok = "None" -> "none"
      [] tok = "NONE" -> "none"
      [] OTHER -> tok

LowerAll(toks) == [i \in 1..Len(toks) |-> Lower(toks[i])]

\* not member_name or member_name.lower() in ['nan', 'none', '']
IsNullName(member_name) ==
    member_name = <<>> \/ LowerAll(member_name) \in {<<"nan">>, <<"none">>, <<>>}

\* the member_schedule of one row: every date column gets a list
RECURSIVE MemberSchedule(_, _, _)
MemberSchedule(date_columns, row, acc) ==
    IF date_columns = <<>> THEN acc
    ELSE MemberSchedule(Tail(date_columns), Tail(row),
                        DictPut(acc, Head(date_columns), parse_time_slot(Head(row))))

\* the loop over df.iterrows()
RECURSIVE BuildSchedules(_, _, _)
BuildSchedules(date_columns, rows, schedules) ==
    IF rows = <<>> THEN schedules
    ELSE LET row == Head(rows)
             member_name == Strip(row[1])
         IN IF IsNullName(member_name)
            THEN BuildSchedules(date_columns, Tail(rows), schedules)
            ELSE BuildSchedules(date_columns, Tail(rows),
                     DictPut(schedules, member_name,
                             MemberSchedule(date_columns, Tail(row), <<>>)))

parse_availability(df) == BuildSchedules(Tail(df.columns), df.rows, <<>>)

\* ---------------------------------------------------- _intersect_all_slots
Overlap_MaxEnd(slot1, slot2) ==
    LET overlap_start == Max2(slot1[1], slot2[1])
        overlap_end == Max2(slot1[2], slot2[2])
    IN IF overlap_end > overlap_start THEN << <<overlap_start, overlap_end>> >>
       ELSE <<>>

Overlap_Closed(slot1, slot2) ==
    LET overlap_start == Max2(slot1[1], slot2[1])
        overlap_end == Min2(slot1[2], slot2[2])
    IN IF overlap_end >= overlap_start THEN << <<overlap_start, overlap_end>> >>
       ELSE <<>>

\* the overlap of slot1 and slot2, appended only when it has positive length
Overlap(slot1, slot2) ==
    LET overlap_start == Max2(slot1[1], slot2[1])
        overlap_end == Min2(slot1[2], slot2[2])
    IN IF overlap_end > overlap_start THEN << <<overlap_start, overlap_end>> >>
       ELSE <<>>

\* the two nested loops of one fold step
NewIntersection(current_intersection, member_slots) ==
    SeqConcat([i \in 1..Len(current_intersection) |->
        SeqConcat([j \in 1..Len(member_slots) |->
            Overlap(current_intersection[i], member_slots[j])])])

\* the loop over all_member_slots[1:], left when the intersection is empty
RECURSIVE FoldSlots(_, _)
FoldSlots(current_intersection, rest) ==
    IF rest = <<>> THEN current_intersection
    ELSE LET new_intersection == NewIntersection(current_intersection, Head(rest))
         IN IF new_intersection = <<>> THEN new_intersection
            ELSE FoldSlots(new_intersection, Tail(rest))

MeetsDuration_NoDuration(slot, duration_hours) == slot[2] - slot[1] > 0

MeetsDuration(slot, duration_hours) == slot[2] - slot[1] >= duration_hours

ValidSlots(current_intersection, duration_hours) ==
    SelectSeq(current_intersection, LAMBDA slot : MeetsDuration(slot, duration_hours))

_intersect_all_slots(all_member_slots, duration_hours) ==
    IF all_member_slots = <<>> THEN <<>>
    ELSE ValidSlots(FoldSlots(Head(all_member_slots), Tail(all_member_slots)),
                    duration_hours)

_find_common_slots(members_available, duration_hours) ==
    IF members_available = <<>> THEN <<>>
    ELSE _intersect_all_slots(DictValues(members_available), duration_hours)

\* --------------------------------------------------- find_best_meeting_time
\* alternative_slots[:10]
TopAlternatives == 10

\* the date labels of the model in Python's string order ("Fri" < "Mon")
LabelOrder == <<"Fri", "Mon">>

\* the orders in which the iteration of a set can yield its elements
Enumerations(set) ==
    {iteration \in [1..Cardinality(set) -> set] : SeqRange(iteration) = set}

LabelIndex(lbl) == CHOOSE i \in 1..Len(LabelOrder) : LabelOrder[i] = lbl

RECURSIVE InsertDate(_, _)
InsertDate(dates, date) ==
    IF dates = <<>> THEN <<date>>
    ELSE IF LabelIndex(date) < LabelIndex(Head(dates)) THEN <<date>> \o dates
    ELSE <<Head(dates)>> \o InsertDate(Tail(dates), date)

RECURSIVE SortDates(_, _)
SortDates(iteration, dates) ==
    IF iteration = <<>> THEN dates
    ELSE SortDates(Tail(iteration), InsertDate(dates, Head(iteration)))

SortedDates_AsIterated(all_dates) == all_dates

\* sorted(all_dates), all_dates given in the order its iteration yields
SortedDates(all_dates) == SortDates(all_dates, <<>>)

\* the union of every member's date keys
AllDates(schedules) ==
    UNION {SeqRange(DictKeys(schedules[i].val)) : i \in 1..Len(schedules)}

\* the members whose list for the date is present and non-empty
MembersAvailable(schedules, date) ==
    LET avail(item) == DictHas(item.val, date) /\ DictGet(item.val, date) # <<>>
        kept == SelectSeq(schedules, avail)
    IN [i \in 1..Len(kept) |-> [key |-> kept[i].key, val |-> DictGet(kept[i].val, date)]]

UnavailableMembers_NoFilter(schedules, members_available) == DictKeys(schedules)

\* [m for m in parsed_schedules.keys() if m not in members_available]
UnavailableMembers(schedules, members_available) ==
    SelectSeq(DictKeys(schedules), LAMBDA m : ~DictHas(members_available, m))

\* available_count / total_members, as the exact fraction in lowest terms
RECURSIVE Gcd(_, _)
Gcd(a, b) == IF b = 0 THEN a ELSE Gcd(b, a % b)

Divide_Floor(a, b) == <<a \div b, 1>>

Divide(a, b) == <<a \div Gcd(a, b), b \div Gcd(a, b)>>

\* the perfect candidates one date appends
PerfectOfDate(schedules, date, duration_hours) ==
    LET members_available == MembersAvailable(schedules, date)
        total_members == Len(schedules)
        available_count == Len(members_available)
        common_slots == _find_common_slots(members_available, duration_hours)
    IN IF available_count # 0 /\ available_count = total_members
       THEN [i \in 1..Len(common_slots) |->
               [date |-> date,
                start_time |-> common_slots[i][1],
                end_time |-> common_slots[i][2],
                members_available |-> DictKeys(members_available),
                members_unavailable |-> <<>>]]
       ELSE <<>>

\* the alternative candidates one date appends
AlternativesOfDate(schedules, date, duration_hours) ==
    LET members_available == MembersAvailable(schedules, date)
        total_members == Len(schedules)
        available_count == Len(members_available)
        common_slots == _find_common_slots(members_available, duration_hours)
    IN IF available_count # 0 /\ available_count >= 2
       THEN [i \in 1..Len(common_slots) |->
               [date |-> date,
                start_time |-> common_slots[i][1],
                end_time |-> common_slots[i][2],
                members_available |-> DictKeys(members_available),
                members_unavailable |-> UnavailableMembers(schedules, members_available),
                coverage |-> Divide(available_count, total_members)]]
       ELSE <<>>

\* perfect_slots after the loop over the sorted dates
PerfectSlots(schedules, duration_hours, all_dates) ==
    LET dates == SortedDates(all_dates)
    IN SeqConcat([k \in 1..Len(dates) |->
                     PerfectOfDate(schedules, dates[k], duration_hours)])

\* alternative_slots after the loop over the sorted dates, before the sort
AlternativeSlots(schedules, duration_hours, all_dates) ==
    LET dates == SortedDates(all_dates)
    IN SeqConcat([k \in 1..Len(dates) |->
                     AlternativesOfDate(schedules, dates[k], duration_hours)])

\* the order of two coverage values
CoverageLess(c1, c2) == c1[1] * c2[2] < c2[1] * c1[2]

SortsBefore_Ascending(x, y) == CoverageLess(x.coverage, y.coverage)

\* key=lambda x: x['coverage'], reverse=True: x goes before y
SortsBefore(x, y) == CoverageLess(y.coverage, x.coverage)

RECURSIVE InsertSorted_Unstable(_, _)
InsertSorted_Unstable(sorted, x) ==
    IF sorted = <<>> THEN <<x>>
    ELSE IF ~SortsBefore(Head(sorted), x) THEN <<x>> \o sorted
    ELSE <<Head(sorted)>> \o InsertSorted_Unstable(Tail(sorted), x)

\* list.sort is stable: an item goes behind every item it does not sort before
RECURSIVE InsertSorted(_, _)
InsertSorted(sorted, x) ==
    IF sorted = <<>> THEN <<x>>
    ELSE IF SortsBefore(x, Head(sorted)) THEN <<x>> \o sorted
    ELSE <<Head(sorted)>> \o InsertSorted(Tail(sorted), x)

RECURSIVE SortByCoverage(_, _)
SortByCoverage(slots, sorted) ==
    IF slots = <<>> THEN sorted
    ELSE SortByCoverage(Tail(slots), InsertSorted(sorted, Head(slots)))

Truncate_Tail(slots) ==
    SubSeq(slots, Len(slots) - Min2(Len(slots), TopAlternatives) + 1, Len(slots))

\* alternative_slots[:10]
Truncate(slots) == SubSeq(slots, 1, Min2(Len(slots), TopAlternatives))

EmptyResult == [perfect_slots |-> <<>>, best_alternative_slots |-> <<>>]

\* all_dates: the set of date keys in the order its iteration yields them
find_best_meeting_time(schedules, duration_hours, all_dates) ==
    IF schedules = <<>> THEN EmptyResult
    ELSE [perfect_slots |-> PerfectSlots(schedules, duration_hours, all_dates),
          best_alternative_slots |->
              Truncate(SortByCoverage(
                  AlternativeSlots(schedules, duration_hours, all_dates), <<>>))]

\* ------------------------------------------------- the web copy of the class
\* src/main(webapp).py holds a second MeetingScheduler.  Its parse_time_slot
\* and the statements of find_best_meeting_time around the calls of
\* _find_common_slots are those of src/main.py line for line (comments
\* apart); what differs is modelled here from the web source.

\* the member_schedule of one row: member_schedule[date_col] = time_slots
RECURSIVE web_MemberSchedule(_, _, _)
web_MemberSchedule(date_columns, row, acc) ==
    IF date_columns = <<>> THEN acc
    ELSE LET time_slots == parse_time_slot(Head(row))
         IN web_MemberSchedule(Tail(date_columns), Tail(row),
                               DictPut(acc, Head(date_columns), time_slots))

RECURSIVE web_BuildSchedules(_, _, _)
web_BuildSchedules(date_columns, rows, schedules) ==
    IF rows = <<>> THEN schedules
    ELSE LET row == Head(rows)
             member_name == Strip(row[1])
         IN IF IsNullName(member_name)
            THEN web_BuildSchedules(date_columns, Tail(rows), schedules)
            ELSE web_BuildSchedules(date_columns, Tail(rows),
                     DictPut(schedules, member_name,
                             web_MemberSchedule(date_columns, Tail(row), <<>>)))

web_parse_availability(df) == web_BuildSchedules(Tail(df.columns), df.rows, <<>>)

web_FoldSlots_OneTurn(current_intersection, iterator, member_slots) ==
    IF iterator = <<>> THEN current_intersection
    ELSE NewIntersection(current_intersection, Head(iterator))

\* for member_slots in member_slots[1:]: the slice is taken once, before the
\* first turn (iterator); every turn binds the name member_slots to the next
\* element of it, and the inner loop reads the name as bound in that turn
RECURSIVE web_FoldSlots(_, _, _)
web_FoldSlots(current_intersection, iterator, member_slots) ==
    IF iterator = <<>> THEN current_intersection
    ELSE LET rebound == Head(iterator)
             new_intersection == NewIntersection(current_intersection, rebound)
         IN IF new_intersection = <<>> THEN new_intersection
            ELSE web_FoldSlots(new_intersection, Tail(iterator), rebound)

web_find_common_slots(members_available, duration_hours) ==
    IF members_available = <<>> THEN <<>>
    ELSE LET member_slots == DictValues(members_available)
         IN ValidSlots(web_FoldSlots(Head(member_slots), Tail(member_slots),
                                     member_slots),
                       duration_hours)

web_PerfectOfDate(schedules, date, duration_hours) ==
    LET members_available == MembersAvailable(schedules, date)
        total_members == Len(schedules)
        available_count == Len(members_available)
        common_slots == web_find_common_slots(members_available, duration_hours)
    IN IF available_count # 0 /\ available_count = total_members
       THEN [i \in 1..Len(common_slots) |->
               [date |-> date,
                start_time |-> common_slots[i][1],
                end_time |-> common_slots[i][2],
                members_available |-> DictKeys(members_available),
                members_unavailable |-> <<>>]]
       ELSE <<>>

web_AlternativesOfDate(schedules, date, duration_hours) ==
    LET members_available == MembersAvailable(schedules, date)
        total_members == Len(schedules)
        available_count == Len(members_available)
        common_slots == web_find_common_slots(members_available, duration_hours)
    IN IF available_count # 0 /\ available_count >= 2
       THEN [i \in 1..Len(common_slots) |->
               [date |-> date,
                start_time |-> common_slots[i][1],
                end_time |-> common_slots[i][2],
                members_available |-> DictKeys(members_available),
                members_unavailable |-> UnavailableMembers(schedules, members_available),
                coverage |-> Divide(available_count, total_members)]]
       ELSE <<>>

web_find_best_meeting_time(schedules, duration_hours, all_dates) ==
    IF schedules = <<>> THEN EmptyResult
    ELSE LET dates == SortedDates(all_dates)
             perfect_slots ==
                 SeqConcat([k \in 1..Len(dates) |->
                     web_PerfectOfDate(schedules, dates[k], duration_hours)])
             alternative_slots ==
                 SeqConcat([k \in 1..Len(dates) |->
                     web_AlternativesOfDate(schedules, dates[k], duration_hours)])
         IN [perfect_slots |-> perfect_slots,
             best_alternative_slots |->
                 Truncate(SortByCoverage(alternative_slots, <<>>))]

\* ------------------------------------------------------------------ inputs
\* the raw cell texts of the tables: "n/a", "9AM-5PM, 10AM-6PM" and
\* "9-12PM; 12-12PM; 1-3PM"
CellTexts ==
    { <<"n/a">>,
      <<"9", "AM", "-", "5", "PM", ",", " ", "10", "AM", "-", "6", "PM">>,
      <<"9", "-", "12", "PM", ";", " ", "12", "-", "12", "PM", ";", " ",
        "1", "-", "3", "PM">> }

\* the name cell of the i-th row
RowNames == <<"Alice", "Bob", "Carol", "Dave", "Erin">>

\* the header: the name column, then the date columns in table order
Columns == <<"Name", "Mon", "Fri">>

RowsOf(n) ==
    {[i \in 1..n |-> <<(<<RowNames[i]>>)>> \o cells[i]] :
        cells \in [1..n -> [1..(Len(Columns) - 1) -> CellTexts]]}

Tables == {[columns |-> Columns, rows |-> rows] : rows \in UNION {RowsOf(n) : n \in 0..MaxRows}}

Durations == {-10, 0, 2, 8}

\* the inputs of the intersector: the lengths of the members' lists, and
\* every (start, end) pair of hours up to MaxHour, degenerate ones included
Shapes == {<<1>>, <<2>>, <<1, 1>>, <<2, 1>>, <<1, 2>>, <<1, 1, 1>>}

Slots == (0..MaxHour) \X (0..MaxHour)

RECURSIVE SlotListsOf(_)
SlotListsOf(shape) ==
    IF shape = <<>> THEN {<<>>}
    ELSE {<<h>> \o t : h \in [1..Head(shape) -> Slots], t \in SlotListsOf(Tail(shape))}

SlotLists == UNION {SlotListsOf(shape) : shape \in Shapes}

\* ------------------------------------------------------------------- state
\* availability_data: <<>> for None, else <<df>>
\* call: <<>> before the first search, else the index and the duration of
\* the last search
\* all_member_slots, min_duration: the arguments of a direct call of the
\* intersector; returned: <<>> before the call, else <<its return value>>
\* arg_time_str: the argument of a direct call of parse_time_slot; ret_time_slots:
\* <<>> before the call, else <<its return value>>
\* arg_hours: the start and end hour of a slot to display; ret_shown: <<>> before
\* the display, else the two format_time strings
\* web_availability_data, web_parsed_schedules, web_result: the fields and the
\* last Result of a scheduler of the web copy
\* loc_df, loc_schedules, loc_row: the locals of a parse_availability call in progress
\* (loc_row = 0: no call in progress, else the next row to read)
VARIABLES availability_data, parsed_schedules, result, call,
          all_member_slots, min_duration, returned,
          arg_time_str, ret_time_slots, arg_hours, ret_shown, loc_df, loc_schedules, loc_row,
          web_availability_data, web_parsed_schedules, web_result

svars == <<availability_data, parsed_schedules, result, call>>
ivars == <<all_member_slots, min_duration, returned>>
pvars == <<arg_time_str, ret_time_slots>>
fvars == <<arg_hours, ret_shown>>
bvars == <<loc_df, loc_schedules, loc_row>>
wvars == <<web_availability_data, web_parsed_schedules, web_result>>
vars == <<availability_data, parsed_schedules, result, call,
          all_member_slots, min_duration, returned,
          arg_time_str, ret_time_slots, arg_hours, ret_shown, loc_df, loc_schedules, loc_row,
          web_availability_data, web_parsed_schedules, web_result>>

\* a scheduler as constructed
InitScheduler ==
    /\ availability_data = <<>>
    /\ parsed_schedules = <<>>
    /\ result = EmptyResult
    /\ call = <<>>
    /\ loc_df = <<>>
    /\ loc_schedules = <<>>
    /\ loc_row = 0

\* no direct call of the intersector, of the parser, of format_time
NoIntersect == all_member_slots = <<>> /\ min_duration = 0 /\ returned = <<>>
NoParse == arg_time_str = <<>> /\ ret_time_slots = <<>>
NoFormat == arg_hours = <<0, 0>> /\ ret_shown = <<>>

\* a scheduler of the web copy as constructed
InitWebScheduler ==
    /\ web_availability_data = <<>>
    /\ web_parsed_schedules = <<>>
    /\ web_result = EmptyResult

Init == InitScheduler /\ InitWebScheduler /\ NoIntersect /\ NoParse /\ NoFormat

\* load_availability_file on a readable .csv/.xlsx file holding table df; a
\* file that cannot be read leaves the scheduler as it is.  A scheduler is
\* followed through one load.
Load(df) ==
    /\ availability_data = <<>>
    /\ availability_data' = <<df>>
    /\ UNCHANGED <<parsed_schedules, result, call>>
    /\ UNCHANGED <<ivars, pvars, fvars, bvars, wvars>>

ParseAvailability ==
    /\ availability_data # <<>>
    /\ parsed_schedules' = parse_availability(availability_data[1])
    /\ UNCHANGED <<availability_data, result, call>>
    /\ UNCHANGED <<ivars, pvars, fvars, bvars, wvars>>

Find_Consuming(duration_hours) ==
    /\ \E all_dates \in Enumerations(AllDates(parsed_schedules)) :
          result' = find_best_meeting_time(parsed_schedules, duration_hours, all_dates)
    /\ call' = <<[index |-> parsed_schedules, duration |-> duration_hours]>>
    /\ parsed_schedules' = <<>>
    /\ UNCHANGED availability_data
    /\ UNCHANGED <<ivars, pvars, fvars, bvars, wvars>>

Find(duration_hours) ==
    /\ \E all_dates \in Enumerations(AllDates(parsed_schedules)) :
          result' = find_best_meeting_time(parsed_schedules, duration_hours, all_dates)
    /\ call' = <<[index |-> parsed_schedules, duration |-> duration_hours]>>
    /\ UNCHANGED <<availability_data, parsed_schedules>>
    /\ UNCHANGED <<ivars, pvars, fvars, bvars, wvars>>

Next ==
    \/ \E df \in Tables : Load(df)
    \/ ParseAvailability
    \/ \E d \in Durations : Find(d)

Spec == Init /\ [][Next]_vars

\* the intersector called on its own, on every input of SlotLists
InitIntersect ==
    /\ InitScheduler /\ InitWebScheduler /\ NoParse /\ NoFormat
    /\ all_member_slots \in SlotLists
    /\ min_duration \in Durations
    /\ returned = <<>>

Intersect ==
    /\ returned = <<>>
    /\ returned' = <<_intersect_all_slots(all_member_slots, min_duration)>>
    /\ UNCHANGED <<all_member_slots, min_duration>>
    /\ UNCHANGED <<svars, pvars, fvars, bvars, wvars>>

NextIntersect == Intersect

SpecIntersect == InitIntersect /\ [][NextIntersect]_vars

\* ------------------------------------------------- parse_time_slot alone
\* the text <s>[P1]-<e>P2 of one time range; p1 = "" for no start period
RangeText(s, p1, e, p2) ==
    <<ToString(s)>> \o (IF p1 = "" THEN <<>> ELSE <<p1>>)
        \o <<"-", ToString(e), p2>>

RangeTexts ==
    {RangeText(s, p1, e, p2) :
        s \in 0..13, p1 \in {"", "AM", "PM"}, e \in 0..13, p2 \in {"AM", "PM"}}

\* the texts of the cells of one sub-part: "9AM-12PM",
\* " 1-3PM", "9 am - 12 pm", "11AM(en dash)1PM ok", "lunch", "9AM", "9-12",
\* "", " ", "off", "On Leave", "banana", "9AM-5PM Unavailable"
PartTexts ==
    { <<"9", "AM", "-", "12", "PM">>,
      <<" ", "1", "-", "3", "PM">>,
      <<"9", " ", "am", " ", "-", " ", "12", " ", "pm">>,
      <<"11", "AM", "en-dash", "1", "PM", " ", "ok">>,
      <<"lunch">>,
      <<"9", "AM">>,
      <<"9", "-", "12">>,
      <<>>,
      <<" ">>,
      <<"off">>,
      <<"On Leave">>,
      <<"banana">>,
      <<"9", "AM", "-", "5", "PM", " ", "Unavailable">> }

\* the cell texts of n sub-parts, joined by "," or ";"
\* the sub-parts that are joined into cells of several sub-parts
JoinedParts ==
    { <<"9", "AM", "-", "12", "PM">>,
      <<" ", "1", "-", "3", "PM">>,
      <<"11", "AM", "en-dash", "1", "PM", " ", "ok">>,
      <<"lunch">>,
      <<>>,
      <<"off">> }

RECURSIVE TextsOfParts(_)
TextsOfParts(n) ==
    IF n = 1 THEN JoinedParts
    ELSE {t \o <<sep>> \o part :
             t \in TextsOfParts(n - 1), sep \in {",", ";"}, part \in JoinedParts}

CellInputs ==
    RangeTexts \cup PartTexts \cup UNION {TextsOfParts(n) : n \in 1..MaxParts}

InitParse ==
    /\ InitScheduler /\ InitWebScheduler /\ NoIntersect /\ NoFormat
    /\ arg_time_str \in CellInputs
    /\ ret_time_slots = <<>>

ParseTimeSlot ==
    /\ ret_time_slots = <<>>
    /\ ret_time_slots' = <<parse_time_slot(arg_time_str)>>
    /\ UNCHANGED arg_time_str
    /\ UNCHANGED <<svars, ivars, fvars, bvars, wvars>>

NextParse == ParseTimeSlot

SpecParse == InitParse /\ [][NextParse]_vars

\* ------------------------------------------------------------ the claims
Searched == call # <<>>
Index == call[1].index
Duration == call[1].duration
Perfect == result.perfect_slots
\* the date keys of the index searched, in one of their iteration orders
IndexDates == CHOOSE all_dates \in Enumerations(AllDates(Index)) : TRUE
Best == result.best_alternative_slots
FullCoverage == <<1, 1>>

\* C1: every candidate of perfect_slots and of best_alternative_slots is at
\* least as long as the duration of the search
C1_DurationMet ==
    Searched =>
        /\ \A i \in 1..Len(Perfect) :
              Perfect[i].end_time - Perfect[i].start_time >= Duration
        /\ \A i \in 1..Len(Best) :
              Best[i].end_time - Best[i].start_time >= Duration

\* a search of duration 8 that dropped some common slots and kept others
C1_Witness ==
    /\ Searched
    /\ Duration = 8
    /\ Perfect # <<>>
    /\ Best # <<>>
    /\ Len(PerfectSlots(Index, 0, IndexDates)) > Len(Perfect)

Equivalent(p, a) ==
    /\ a.date = p.date
    /\ a.start_time = p.start_time
    /\ a.end_time = p.end_time
    /\ a.members_available = p.members_available

AvailableCount(schedules, date) == Len(MembersAvailable(schedules, date))

\* C3 as stated: a date with exactly one available participant has no
\* candidate in perfect_slots and none in best_alternative_slots
C3_Original ==
    Searched =>
        /\ \A i \in 1..Len(Perfect) : AvailableCount(Index, Perfect[i].date) # 1
        /\ \A i \in 1..Len(Best) : AvailableCount(Index, Best[i].date) # 1

\* the hours a member is available in: the union of the member's slots
AvailableHours(member_slots) ==
    {h \in 0..(MaxHour - 1) :
        \E i \in 1..Len(member_slots) :
            member_slots[i][1] <= h /\ h < member_slots[i][2]}

\* the hours every member is available in
CommonHours(lists) ==
    {h \in 0..(MaxHour - 1) : \A m \in 1..Len(lists) : h \in AvailableHours(lists[m])}

\* a window that lies inside the common hours and cannot grow at either end
IsMaximalWindow(slot, lists) ==
    /\ \A h \in slot[1]..(slot[2] - 1) : h \in CommonHours(lists)
    /\ (slot[1] - 1) \notin CommonHours(lists)
    /\ slot[2] \notin CommonHours(lists)

MaximalWindows(lists) ==
    {slot \in Slots : slot[2] > slot[1] /\ IsMaximalWindow(slot, lists)}

\* no two slots of one member overlap or touch
Separated(member_slots) ==
    \A i, j \in 1..Len(member_slots) :
        i < j => \/ member_slots[i][2] < member_slots[j][1]
                 \/ member_slots[j][2] < member_slots[i][1]

AllSeparated(lists) == \A m \in 1..Len(lists) : Separated(lists[m])

\* C4 as stated, read for the returned slots of positive length: the
\* intersector returns maximal common windows only, and every maximal common
\* window that is at least as long as the duration
C4_Original ==
    returned # <<>> =>
        /\ \A i \in 1..Len(returned[1]) :
              returned[1][i][2] > returned[1][i][1] =>
                  IsMaximalWindow(returned[1][i], all_member_slots)
        /\ \A w \in MaximalWindows(all_member_slots) :
              w[2] - w[1] >= min_duration => w \in SeqRange(returned[1])

\* C4 as amended: when no member's own slots overlap or touch, every
\* returned slot of positive length is a maximal common window and every
\* maximal common window at least as long as the duration is returned
C4_MaximalWhenSeparated ==
    (returned # <<>> /\ AllSeparated(all_member_slots)) =>
        /\ \A i \in 1..Len(returned[1]) :
              returned[1][i][2] > returned[1][i][1] =>
                  IsMaximalWindow(returned[1][i], all_member_slots)
        /\ \A w \in MaximalWindows(all_member_slots) :
              w[2] - w[1] >= min_duration => w \in SeqRange(returned[1])

\* two members, one of them with two separated slots, both windows returned
C4_Witness ==
    /\ returned # <<>>
    /\ Len(all_member_slots) = 2
    /\ AllSeparated(all_member_slots)
    /\ \E m \in 1..2 : Len(all_member_slots[m]) = 2
    /\ Len(returned[1]) = 2
    /\ Cardinality(MaximalWindows(all_member_slots)) = 2

\* every choice of one slot from each list, the first list varying slowest
RECURSIVE Choices(_)
Choices(lists) ==
    IF lists = <<>> THEN << <<>> >>
    ELSE LET rest == Choices(Tail(lists))
         IN SeqConcat([i \in 1..Len(Head(lists)) |->
                [k \in 1..Len(rest) |-> <<Head(lists)[i]>> \o rest[k]]])

RECURSIVE MaxStart(_)
MaxStart(choice) ==
    IF Len(choice) = 1 THEN choice[1][1]
    ELSE Max2(choice[1][1], MaxStart(Tail(choice)))

RECURSIVE MinEnd(_)
MinEnd(choice) ==
    IF Len(choice) = 1 THEN choice[1][2]
    ELSE Min2(choice[1][2], MinEnd(Tail(choice)))

\* the all-way intersection: one (max start, min end) per choice, kept when
\* it has positive length and is at least as long as the duration
AllWayIntersection(lists, duration_hours) ==
    LET cs == Choices(lists)
        all == [k \in 1..Len(cs) |-> <<MaxStart(cs[k]), MinEnd(cs[k])>>]
    IN SelectSeq(all, LAMBDA slot :
           slot[2] > slot[1] /\ slot[2] - slot[1] >= duration_hours)

\* C5: for two or more lists the intersector returns exactly the all-way
\* intersection, in nested list order
C5_AllWayIntersection ==
    (returned # <<>> /\ Len(all_member_slots) >= 2) =>
        returned[1] = AllWayIntersection(all_member_slots, min_duration)

\* three lists with a common window, and two lists of which one has two
\* slots that both overlap the other's
C5_Witness ==
    /\ returned # <<>>
    /\ returned[1] # <<>>
    /\ \/ Len(all_member_slots) = 3
       \/ /\ Len(all_member_slots) = 2
          /\ Len(returned[1]) = 2
          /\ returned[1][1] # returned[1][2]

\* how many items of the list have the coverage
CountCoverage(slots, cov) ==
    Cardinality({i \in 1..Len(slots) : slots[i].coverage = cov})

\* how many items of the list equal the candidate
CountCandidate(slots, c) == Cardinality({i \in 1..Len(slots) : slots[i] = c})

\* the alternative candidates of the last search before the sort
Unsorted == AlternativeSlots(Index, Duration, IndexDates)

\* the coverage values of a list
Coverages(slots) == {slots[i].coverage : i \in 1..Len(slots)}

\* C6: best_alternative_slots has at most 10 entries, in non-increasing
\* coverage, taken from the alternative candidates of the search, and no
\* candidate left out has a coverage above that of a retained one
C6_TopTen ==
    Searched =>
        LET unsorted == Unsorted
        IN /\ Len(Best) <= 10
           /\ Len(Best) = Min2(Len(unsorted), 10)
           /\ \A i \in 1..(Len(Best) - 1) :
                 ~CoverageLess(Best[i].coverage, Best[i + 1].coverage)
           /\ \A c \in SeqRange(Best) :
                 CountCandidate(Best, c) <= CountCandidate(unsorted, c)
           /\ \A high \in Coverages(unsorted) : \A low \in Coverages(Best) :
                 CoverageLess(low, high) =>
                     CountCoverage(Best, high) = CountCoverage(unsorted, high)

\* more than 10 alternatives, found in increasing coverage, of which the
\* returned list keeps both coverages
C6_Witness ==
    /\ Searched
    /\ Len(Unsorted) > 10
    /\ CoverageLess(Unsorted[1].coverage, Unsorted[Len(Unsorted)].coverage)
    /\ CoverageLess(Best[10].coverage, Best[1].coverage)

\* the slots of the index, of every member and date
IndexSlots(schedules) ==
    UNION {SeqRange(schedules[i].val[k].val) :
              i \in 1..Len(schedules), k \in 1..(Len(Columns) - 1)}

\* C7 as stated: every slot of the index is a pair of hours in 0..23 with
\* end > start
C7_Original ==
    \A slot \in IndexSlots(parsed_schedules) :
        /\ 0 <= slot[1] /\ slot[1] < 24
        /\ 0 <= slot[2] /\ slot[2] < 24
        /\ slot[2] > slot[1]

\* C8 as stated: with a duration <= 0 every candidate of either list has
\* end_time > start_time
C8_Original ==
    (Searched /\ Duration <= 0) =>
        /\ \A i \in 1..Len(Perfect) : Perfect[i].end_time > Perfect[i].start_time
        /\ \A i \in 1..Len(Best) : Best[i].end_time > Best[i].start_time

AllMembers == SeqRange(DictKeys(Index))

\* C9: an alternative candidate splits the participants of the index into
\* members_available and members_unavailable; a perfect candidate has every
\* participant available, on a date every participant has slots for
C9_MemberPartition ==
    Searched =>
        /\ \A i \in 1..Len(Best) :
              /\ SeqRange(Best[i].members_available)
                    \cap SeqRange(Best[i].members_unavailable) = {}
              /\ SeqRange(Best[i].members_available)
                    \cup SeqRange(Best[i].members_unavailable) = AllMembers
        /\ \A i \in 1..Len(Perfect) :
              /\ SeqRange(Perfect[i].members_available) = AllMembers
              /\ Perfect[i].members_unavailable = <<>>
              /\ \A m \in 1..Len(Index) :
                    /\ DictHas(Index[m].val, Perfect[i].date)
                    /\ DictGet(Index[m].val, Perfect[i].date) # <<>>

\* one search returning a perfect candidate and an alternative candidate
\* with an unavailable member
C9_Witness ==
    /\ Searched
    /\ Perfect # <<>>
    /\ \E i \in 1..Len(Best) : Best[i].members_unavailable # <<>>

\* C10: the coverage of an alternative candidate is the number of its
\* available members over the number of participants of the index searched;
\* it lies between 2 / total and 1 and is 1 exactly when no member is
\* unavailable
C10_Coverage ==
    Searched =>
        \A i \in 1..Len(Best) :
            LET cov == Best[i].coverage
                total_participants == Len(Index)
            IN /\ cov[2] > 0
               /\ cov[1] * total_participants
                     = Len(Best[i].members_available) * cov[2]
               /\ 2 * cov[2] <= cov[1] * total_participants
               /\ cov[1] <= cov[2]
               /\ (cov[1] = cov[2]) <=> (Best[i].members_unavailable = <<>>)

\* one search returning alternatives of coverage 2/3 and of coverage 1
C10_Witness ==
    /\ Searched
    /\ \E i \in 1..Len(Best) : Best[i].coverage = <<2, 3>>
    /\ \E i \in 1..Len(Best) : Best[i].coverage = FullCoverage

\* Python's order of the date labels of the tables: "Fri" < "Mon"
DateLess(a, b) == a = "Fri" /\ b = "Mon"

\* the (start, end) pairs of the candidates of one date, in list order
SlotsOfDate(slots, date) ==
    LET of == SelectSeq(slots, LAMBDA c : c.date = date)
    IN [i \in 1..Len(of) |-> <<of[i].start_time, of[i].end_time>>]

IsPrefix(s, t) == Len(s) <= Len(t) /\ s = SubSeq(t, 1, Len(s))

\* C11: perfect_slots is in ascending date order and, within a date, in the
\* order the intersector returned; candidates of equal coverage keep in
\* best_alternative_slots the order they were found in
C11_DateOrderStableSort ==
    Searched =>
        LET unsorted == Unsorted
        IN /\ \A i, j \in 1..Len(Perfect) :
                 i < j => ~DateLess(Perfect[j].date, Perfect[i].date)
           /\ \A i, j \in 1..Len(unsorted) :
                 i < j => ~DateLess(unsorted[j].date, unsorted[i].date)
           /\ \A date \in {"Fri", "Mon"} :
                 AvailableCount(Index, date) = Len(Index) =>
                     SlotsOfDate(Perfect, date)
                         = _find_common_slots(MembersAvailable(Index, date), Duration)
           /\ \A cov \in Coverages(Best) :
                 IsPrefix(SelectSeq(Best, LAMBDA c : c.coverage = cov),
                          SelectSeq(unsorted, LAMBDA c : c.coverage = cov))

\* perfect candidates on both dates, and two different alternatives of equal
\* coverage found on different dates
C11_Witness ==
    /\ Searched
    /\ \E i, j \in 1..Len(Perfect) :
          i < j /\ Perfect[i].date = "Fri" /\ Perfect[j].date = "Mon"
    /\ \E i, j \in 1..Len(Best) :
          /\ i < j
          /\ Best[i].coverage = Best[j].coverage
          /\ Best[i].date = "Fri" /\ Best[j].date = "Mon"

\* ------------------------------------------------ parse_availability alone
\* the name cells: plain, padded, null markers in several cases, and blank
NameTexts ==
    { <<"Alice">>, <<" ", "Alice", " ">>, <<"Bob">>,
      <<"NaN">>, <<"NONE">>, <<" ">> }

\* the date cells of one row, Mon then Fri
RowCells ==
    { << <<"n/a">>, <<"9", "AM", "-", "12", "PM">> >>,
      << <<"1", "-", "3", "PM">>, <<"n/a">> >> }

NameRows == {<<name>> \o cells : name \in NameTexts, cells \in RowCells}

NameTables ==
    {[columns |-> Columns, rows |-> rows] :
        rows \in UNION {[1..n -> NameRows] : n \in 0..MaxRows}}

NextBuild == (\E df \in NameTables : Load(df)) \/ ParseAvailability

SpecBuild == Init /\ [][NextBuild]_vars

\* ------------------------------------------------------- format_time alone
format_time_NoonAM(hour) ==
    IF hour = 0 THEN "12AM"
    ELSE IF hour <= 12 THEN ToString(hour) \o "AM"
    ELSE ToString(hour - 12) \o "PM"

\* 24-hour to 12-hour text
format_time(hour) ==
    IF hour = 0 THEN "12AM"
    ELSE IF hour < 12 THEN ToString(hour) \o "AM"
    ELSE IF hour = 12 THEN "12PM"
    ELSE ToString(hour - 12) \o "PM"

\* the hours of a day
Hours == 0..23

InitFormat ==
    /\ InitScheduler /\ InitWebScheduler /\ NoIntersect /\ NoParse
    /\ arg_hours \in Hours \X Hours
    /\ ret_shown = <<>>

\* the start and the end of a slot are formatted, as the result view does
FormatSlot ==
    /\ ret_shown = <<>>
    /\ ret_shown' = <<format_time(arg_hours[1]), format_time(arg_hours[2])>>
    /\ UNCHANGED arg_hours
    /\ UNCHANGED <<svars, ivars, pvars, bvars, wvars>>

NextFormat == FormatSlot

SpecFormat == InitFormat /\ [][NextFormat]_vars

\* ------------------------------------------- reloads, rebuilds and readers
\* the tables of a reload: two rows, "Alice" and "Bob"
RebuildTables ==
    {[columns |-> Columns,
      rows |-> << <<(<<"Alice">>)>> \o c1, <<(<<"Bob">>)>> \o c2 >>] :
        c1 \in RowCells, c2 \in RowCells}

\* load_availability_file: the table is replaced, nothing else is touched;
\* the caller that loads is the one that rebuilds, so no rebuild is under way
Reload(df) ==
    /\ loc_row = 0
    /\ availability_data' = <<df>>
    /\ UNCHANGED <<parsed_schedules, result, call>>
    /\ UNCHANGED <<ivars, pvars, fvars, bvars, wvars>>

\* parse_availability up to the loop: df is bound, schedules = {}
ParseBegin ==
    /\ loc_row = 0
    /\ availability_data # <<>>
    /\ loc_df' = availability_data
    /\ loc_schedules' = <<>>
    /\ loc_row' = 1
    /\ UNCHANGED <<svars, ivars, pvars, fvars, wvars>>

ParseRow_InPlace ==
    /\ loc_row >= 1
    /\ loc_row <= Len(loc_df[1].rows)
    /\ loc_schedules' = BuildSchedules(Tail(loc_df[1].columns),
                                       <<loc_df[1].rows[loc_row]>>, loc_schedules)
    /\ parsed_schedules' = loc_schedules'
    /\ loc_row' = loc_row + 1
    /\ UNCHANGED <<availability_data, result, call, loc_df>>
    /\ UNCHANGED <<ivars, pvars, fvars, wvars>>

\* one turn of the loop over df.iterrows(), on the local schedules
ParseRow ==
    /\ loc_row >= 1
    /\ loc_row <= Len(loc_df[1].rows)
    /\ loc_schedules' = BuildSchedules(Tail(loc_df[1].columns),
                                       <<loc_df[1].rows[loc_row]>>, loc_schedules)
    /\ loc_row' = loc_row + 1
    /\ UNCHANGED <<svars, loc_df>>
    /\ UNCHANGED <<ivars, pvars, fvars, wvars>>

\* self.parsed_schedules = schedules, after the loop
ParsePublish ==
    /\ loc_row >= 1
    /\ loc_row = Len(loc_df[1].rows) + 1
    /\ parsed_schedules' = loc_schedules
    /\ loc_row' = 0
    /\ UNCHANGED <<availability_data, result, call, loc_df, loc_schedules>>
    /\ UNCHANGED <<ivars, pvars, fvars, wvars>>

NextRebuild ==
    \/ \E df \in RebuildTables : Reload(df)
    \/ ParseBegin
    \/ ParseRow
    \/ ParsePublish
    \/ \E d \in Durations : Find(d)

SpecRebuild == Init /\ [][NextRebuild]_vars

\* ------------------------------------------ the two copies on the same input
\* a scheduler of each copy is given the same table ...
BothLoad(df) ==
    /\ availability_data = <<>>
    /\ availability_data' = <<df>>
    /\ web_availability_data' = <<df>>
    /\ UNCHANGED <<parsed_schedules, result, call>>
    /\ UNCHANGED <<web_parsed_schedules, web_result>>
    /\ UNCHANGED <<ivars, pvars, fvars, bvars>>

\* ... builds its index ...
BothParse ==
    /\ availability_data # <<>>
    /\ parsed_schedules' = parse_availability(availability_data[1])
    /\ web_parsed_schedules' = web_parse_availability(web_availability_data[1])
    /\ UNCHANGED <<availability_data, result, call>>
    /\ UNCHANGED <<web_availability_data, web_result>>
    /\ UNCHANGED <<ivars, pvars, fvars, bvars>>

\* ... and searches with the same duration; each iterates its own set of
\* date keys in an order of its own
BothFind(duration_hours) ==
    /\ \E all_dates \in Enumerations(AllDates(parsed_schedules)) :
          result' = find_best_meeting_time(parsed_schedules, duration_hours, all_dates)
    /\ \E all_dates \in Enumerations(AllDates(web_parsed_schedules)) :
          web_result' = web_find_best_meeting_time(web_parsed_schedules,
                                                   duration_hours, all_dates)
    /\ call' = <<[index |-> parsed_schedules, duration |-> duration_hours]>>
    /\ UNCHANGED <<availability_data, parsed_schedules>>
    /\ UNCHANGED <<web_availability_data, web_parsed_schedules>>
    /\ UNCHANGED <<ivars, pvars, fvars, bvars>>

NextWeb ==
    \/ \E df \in Tables : BothLoad(df)
    \/ BothParse
    \/ \E d \in Durations : BothFind(d)

SpecWeb == Init /\ [][NextWeb]_vars

ParseCalled == ret_time_slots # <<>>

\* the end hour C12 states for <e>P2
ClaimedEnd(e, p2) ==
    CASE p2 = "PM" /\ e # 12 -> e + 12
      [] p2 = "AM" /\ e = 12 -> 0
      [] OTHER -> e

\* the start hour C12 states for <s>[P1] before an end period P2
ClaimedStart(s, p1, p2) ==
    CASE p1 # "" -> ClaimedEnd(s, p1)
      [] p1 = "" /\ p2 = "PM" /\ s < 12 -> s + 12
      [] OTHER -> s

\* C12: a cell <s>[P1]-<e>P2 parses to the one tuple (start, end) of the
\* stated conversion; "9AM-12PM", "1-3PM", "11AM-1PM" and "9-12PM" parse to
\* (9, 12), (13, 15), (11, 13) and (21, 12)
C12_HourConversion ==
    (ParseCalled /\ Len(arg_time_str) <= 5) =>
        /\ \A s, e \in 0..13 : \A p1 \in {"", "AM", "PM"} : \A p2 \in {"AM", "PM"} :
              arg_time_str = RangeText(s, p1, e, p2) =>
                  ret_time_slots[1] = << <<ClaimedStart(s, p1, p2), ClaimedEnd(e, p2)>> >>
        /\ arg_time_str = <<"9", "AM", "-", "12", "PM">> =>
              ret_time_slots[1] = << <<9, 12>> >>
        /\ arg_time_str = <<"1", "-", "3", "PM">> =>
              ret_time_slots[1] = << <<13, 15>> >>
        /\ arg_time_str = <<"11", "AM", "-", "1", "PM">> =>
              ret_time_slots[1] = << <<11, 13>> >>
        /\ arg_time_str = <<"9", "-", "12", "PM">> =>
              ret_time_slots[1] = << <<21, 12>> >>

\* "11AM-1PM" parsed: the start keeps its own period
C12_Witness ==
    /\ ParseCalled
    /\ arg_time_str = <<"11", "AM", "-", "1", "PM">>
    /\ ret_time_slots[1] = << <<11, 13>> >>

\* the words of the cell texts that hold NA, N/A, ON LEAVE, LEAVE,
\* UNAVAILABLE or OFF in some letter case
AbsenceWords ==
    {"NA", "na", "N/A", "n/a", "ON LEAVE", "On Leave", "LEAVE", "UNAVAILABLE",
     "Unavailable", "OFF", "off", "NAN", "nan", "BANANA", "banana"}

HoldsAbsenceWord(text) == \E i \in 1..Len(text) : text[i] \in AbsenceWords

\* C13: a cell that holds an absence keyword in any letter case parses to
\* the empty sequence, also when it holds a valid time range
C13_AbsenceFirst ==
    (ParseCalled /\ HoldsAbsenceWord(arg_time_str)) => ret_time_slots[1] = <<>>

\* a cell with a valid range and a keyword in another sub-part was parsed
C13_Witness ==
    /\ ParseCalled
    /\ arg_time_str = <<"9", "AM", "-", "12", "PM", ",", "off">>
    /\ ret_time_slots[1] = <<>>

\* the sub-parts of a cell text: the stretches between its commas and
\* semicolons
SeparatorsOf(text) == {i \in 1..Len(text) : text[i] \in {",", ";"}}

Stretch(text, k) ==
    LET cuts == {0} \cup SeparatorsOf(text) \cup {Len(text) + 1}
        from == CHOOSE c \in cuts : Cardinality({d \in cuts : d < c}) = k - 1
        to == CHOOSE c \in cuts : Cardinality({d \in cuts : d < c}) = k
    IN SubSeq(text, from + 1, to - 1)

Stretches(text) ==
    [k \in 1..Cardinality(SeparatorsOf(text)) + 1 |-> Stretch(text, k)]

\* the interval the time-range pattern finds in a sub-part, by sub-part
MatchingParts ==
    (<<"9", "AM", "-", "12", "PM">> :> <<9, 12>>) @@
    (<<" ", "1", "-", "3", "PM">> :> <<13, 15>>) @@
    (<<"9", " ", "am", " ", "-", " ", "12", " ", "pm">> :> <<9, 12>>) @@
    (<<"11", "AM", "en-dash", "1", "PM", " ", "ok">> :> <<11, 13>>)

NonMatchingParts == {<<"lunch">>, <<"9", "AM">>, <<"9", "-", "12">>, <<>>, <<" ">>}

Known(text) ==
    \A k \in 1..Len(Stretches(text)) :
        Stretches(text)[k] \in DOMAIN MatchingParts \cup NonMatchingParts

IntervalsInOrder(text) ==
    LET parts == Stretches(text)
        matching == SelectSeq(parts, LAMBDA part : part \in DOMAIN MatchingParts)
    IN [k \in 1..Len(matching) |-> MatchingParts[matching[k]]]

\* C20: every cell parses to a sequence, and a cell without an absence
\* keyword parses to one interval per matching sub-part, in sub-part order,
\* whatever its other sub-parts hold
C20_SkipMalformed ==
    ParseCalled =>
        /\ Len(ret_time_slots) = 1
        /\ \A k \in 1..Len(ret_time_slots[1]) :
              ret_time_slots[1][k] \in Int \X Int
        /\ (~HoldsAbsenceWord(arg_time_str) /\ Known(arg_time_str)) =>
              ret_time_slots[1] = IntervalsInOrder(arg_time_str)

\* a cell with a malformed, a matching, an empty and a matching sub-part:
\* both intervals are returned
C20_Witness ==
    /\ ParseCalled
    /\ arg_time_str = <<"lunch", ",", "9", "AM", "-", "12", "PM", ";",
                        " ", "1", "-", "3", "PM">>
    /\ ret_time_slots[1] = << <<9, 12>>, <<13, 15>> >>

\* the trimmed name of a name cell that is kept
KeptNames ==
    (<<"Alice">> :> <<"Alice">>) @@ (<<" ", "Alice", " ">> :> <<"Alice">>) @@
    (<<"Bob">> :> <<"Bob">>)

KeptRows(df) == {i \in 1..Len(df.rows) : df.rows[i][1] \in DOMAIN KeptNames}

LastRowOf(df, name) ==
    CHOOSE i \in KeptRows(df) :
        /\ KeptNames[df.rows[i][1]] = name
        /\ \A j \in KeptRows(df) : KeptNames[df.rows[j][1]] = name => j <= i

IsIndexOf(df, index) ==
    /\ {index[k].key : k \in 1..Len(index)} =
          {KeptNames[df.rows[i][1]] : i \in KeptRows(df)}
    /\ \A k, l \in 1..Len(index) : index[k].key = index[l].key => k = l
    /\ \A k \in 1..Len(index) :
          LET row == df.rows[LastRowOf(df, index[k].key)]
          IN index[k].val =
                 <<[key |-> "Mon", val |-> parse_time_slot(row[2])],
                   [key |-> "Fri", val |-> parse_time_slot(row[3])]>>

\* C14: every build of the index drops the rows with an empty or nan/none
\* name and holds one entry per distinct trimmed name, with the schedule of
\* the last row of that name and one list for every date column
C14_LastWriteWins ==
    [][(availability_data # <<>> /\ availability_data' = availability_data)
          => IsIndexOf(availability_data[1], parsed_schedules')]_vars

\* built from " Alice ", a NaN row and "Alice" with other cells: one entry,
\* with the cells of the third row
C14_Witness ==
    /\ availability_data # <<>>
    /\ Len(availability_data[1].rows) = 3
    /\ availability_data[1].rows[1][1] = <<" ", "Alice", " ">>
    /\ availability_data[1].rows[2][1] = <<"NaN">>
    /\ availability_data[1].rows[3][1] = <<"Alice">>
    /\ availability_data[1].rows[1][2] = <<"n/a">>
    /\ availability_data[1].rows[3][2] = <<"1", "-", "3", "PM">>
    /\ Len(parsed_schedules) = 1
    /\ parsed_schedules[1].key = <<"Alice">>
    /\ parsed_schedules[1].val[1] = [key |-> "Mon", val |-> << <<13, 15>> >>]

\* the 12-hour text of each hour, as C15 states it
ClockText ==
    <<"12AM", "1AM", "2AM", "3AM", "4AM", "5AM", "6AM", "7AM", "8AM", "9AM",
      "10AM", "11AM", "12PM", "1PM", "2PM", "3PM", "4PM", "5PM", "6PM", "7PM",
      "8PM", "9PM", "10PM", "11PM">>

\* C15: an hour h of 0..23 is shown as "12AM" for 0, "<h>AM" for 1..11,
\* "12PM" for 12 and "<h-12>PM" for 13..23, and two distinct hours are shown
\* differently
C15_ClockText ==
    ret_shown # <<>> =>
        /\ ret_shown[1] = ClockText[arg_hours[1] + 1]
        /\ ret_shown[2] = ClockText[arg_hours[2] + 1]
        /\ arg_hours[1] # arg_hours[2] => ret_shown[1] # ret_shown[2]

\* midnight and noon were formatted
C15_Witness ==
    /\ arg_hours = <<0, 12>>
    /\ ret_shown = <<"12AM", "12PM">>

\* C16: after any number of builds and searches, the index is the one
\* built from the table and the Result is the one of the index and the
\* duration last searched, whatever the order in which the set of date keys
\* is iterated
C16_Deterministic ==
    /\ Searched =>
          \A all_dates \in Enumerations(AllDates(Index)) :
              result = find_best_meeting_time(Index, Duration, all_dates)
    /\ parsed_schedules # <<>> =>
          parsed_schedules = parse_availability(availability_data[1])

\* a search over two dates with candidates on both of them
C16_Witness ==
    /\ Searched
    /\ Cardinality(Enumerations(AllDates(Index))) = 2
    /\ \E i, j \in 1..Len(Best) : Best[i].date = "Mon" /\ Best[j].date = "Fri"
    /\ \E i, j \in 1..Len(Perfect) : Perfect[i].date = "Mon" /\ Perfect[j].date = "Fri"

\* a step that is a search: it records a call or changes the Result
SearchStep == call' # call \/ result' # result

\* C18: a search leaves parsed_schedules and availability_data as they
\* are, and its Result is the one of a search of its duration run alone
\* against that index, whatever was searched before
C18_SearchReadsOnly ==
    [][SearchStep =>
          /\ parsed_schedules' = parsed_schedules
          /\ availability_data' = availability_data
          /\ call'[1].index = parsed_schedules'
          /\ result' = find_best_meeting_time(parsed_schedules', call'[1].duration,
                           CHOOSE all_dates \in Enumerations(AllDates(parsed_schedules')) : TRUE)
      ]_vars

\* a search of duration 8 found candidates and the index is still the one
\* built from the table
C18_Witness ==
    /\ Searched
    /\ Duration = 8
    /\ Perfect # <<>>
    /\ parsed_schedules # <<>>
    /\ parsed_schedules = Index
    /\ parsed_schedules = parse_availability(availability_data[1])

\* C17: a search that returns candidates searched the index of the table
\* loaded last
C17_Original ==
    [][(SearchStep /\ (result'.perfect_slots # <<>>
                         \/ result'.best_alternative_slots # <<>>))
          => /\ availability_data # <<>>
             /\ IsIndexOf(availability_data[1], parsed_schedules)]_vars

\* C19: whenever the published index changes, a rebuild is under way and
\* the new value is the complete index of the table being rebuilt; until
\* then it is the complete previous index
C19_AtomicSwap ==
    [][parsed_schedules' # parsed_schedules
          => /\ loc_row # 0
             /\ IsIndexOf(loc_df[1], parsed_schedules')]_vars

\* half-way through a rebuild: one row is in the local schedules, the
\* published index is still the complete index of another table
C19_Witness ==
    /\ loc_row = 2
    /\ Len(loc_schedules) = 1
    /\ Len(parsed_schedules) = 2
    /\ \E df \in RebuildTables : df # loc_df[1] /\ IsIndexOf(df, parsed_schedules)
    /\ ~IsIndexOf(loc_df[1], parsed_schedules)

\* C21: given the same table and the same durations, the desktop copy and
\* the web copy hold the same index and return the same Result
C21_CopiesAgree ==
    /\ web_parsed_schedules = parsed_schedules
    /\ web_result = result

\* both copies searched an index of three participants and returned a
\* perfect slot of all three: the fold took two turns
C21_Witness ==
    /\ Searched
    /\ Len(web_parsed_schedules) = 3
    /\ \E i \in 1..Len(web_result.perfect_slots) :
          Len(web_result.perfect_slots[i].members_available) = 3
    /\ web_result = result

====
